---- MODULE Spec2Model ----
(***************************************************************************)
(* Model of neurokernel/tools/graph.py: conn_to_graph (connectivity object *)
(* -> bipartite NetworkX MultiDiGraph) and graph_to_conn (MultiDiGraph ->  *)
(* connectivity object).                                                   *)
(*                                                                         *)
(* Python values are tagged records [t, v, dot]: an int n is               *)
(* [t |-> "int", v |-> n], a float x is [t |-> "float", v |-> 10*x]        *)
(* (tenths), a str holding a numeric literal is [t |-> "str", v |-> 10*x,  *)
(* dot |-> whether the literal has a decimal point].                       *)
(* A node label 'A:0' is the record [id |-> "A", n |-> 0, form |-> "ok"];  *)
(* form "nocolon" is a label the regular expression (.+):(.+) does not     *)
(* match, form "nonint" one it matches but whose index int() rejects.      *)
(***************************************************************************)
EXTENDS Integers, Sequences, FiniteSets, TLC

VARIABLES c, g, c2, conn_type, err, pc

vars == <<c, g, c2, conn_type, err, pc>>

\* Largest population size of a generated connectivity object.
MaxN == 2
\* Largest N_mult of a generated connectivity object.
MaxMult == 2
\* Largest number of keyed writes that populate a connectivity object.
MaxWrites == 3

----------------------------------------------------------------------------
(* Python values *)

IntV(n) == [t |-> "int", v |-> n, dot |-> FALSE]

FloatV(x) == [t |-> "float", v |-> x, dot |-> FALSE]

StrV(x, d) == [t |-> "str", v |-> x, dot |-> d]

\* What a raising conversion yields.
Raised == [t |-> "raise", v |-> 0, dot |-> FALSE]

Trunc10(x) == IF x >= 0 THEN x \div 10 ELSE -((-x) \div 10)

\* int(x): a float is truncated towards zero, a str must be an integer literal.
PyInt(x) ==
    CASE x.t = "int" -> x
      [] x.t = "float" -> IntV(Trunc10(x.v))
      [] x.t = "str" -> IF x.dot THEN Raised ELSE IntV(Trunc10(x.v))
      [] OTHER -> Raised

\* float(x)
PyFloat(x) ==
    CASE x.t = "int" -> FloatV(10 * x.v)
      [] x.t = "float" -> x
      [] x.t = "str" -> FloatV(x.v)
      [] OTHER -> Raised

\* bool(x) of a number read from the store
Truthy(x) == x.v # 0

\* x == 1
EqOne(x) == (x.t = "int" /\ x.v = 1) \/ (x.t = "float" /\ x.v = 10)

----------------------------------------------------------------------------
(* Connectivity objects (base.BaseConnectivity, core.Connectivity) *)

Label(id, n) == [id |-> id, n |-> n, form |-> "ok"]

\* The key of one stored entry: c[src, i, dst, j, conn, name].
Key(src, i, dst, j, conn, name) == <<src, i, dst, j, conn, name>>

\* N(id): the number of ports of population id.
N(cc, id) == IF id = cc.A_id THEN cc.N_A ELSE cc.N_B

\* c[src, i, dst, j, conn, name]: an entry never written reads as 0.
Get(cc, src, i, dst, j, conn, name) ==
    IF Key(src, i, dst, j, conn, name) \in DOMAIN cc.data
    THEN cc.data[Key(src, i, dst, j, conn, name)]
    ELSE IntV(0)

\* Whether the store accepts the key: the two populations, in either
\* direction, indices and slot within the sizes given at construction.
ValidKey(cc, src, i, dst, j, conn) ==
    /\ {src, dst} = {cc.A_id, cc.B_id}
    /\ src # dst
    /\ i \in 0..(N(cc, src) - 1)
    /\ j \in 0..(N(cc, dst) - 1)
    /\ conn \in 0..(cc.N_mult - 1)

\* c[src, i, dst, j, conn, name] = val; the store is sparse, a zero is not kept.
SetData(cc, src, i, dst, j, conn, name, val) ==
    LET k == Key(src, i, dst, j, conn, name)
        keep == IF Truthy(val) THEN DOMAIN cc.data \cup {k} ELSE DOMAIN cc.data \ {k}
    IN [cc EXCEPT !.data = [x \in keep |-> IF x = k THEN val ELSE cc.data[x]]]

EmptyData == [x \in {} |-> IntV(0)]

\* base.BaseConnectivity(N_A, N_B, N_mult, A_id, B_id)
BaseConnectivity(nA, nB, nMult, aId, bId) ==
    [cls |-> "BaseConnectivity", A_id |-> aId, B_id |-> bId,
     N_A |-> nA, N_B |-> nB, N_mult |-> nMult,
     N_A_gpot |-> 0, N_A_spike |-> 0, N_B_gpot |-> 0, N_B_spike |-> 0,
     idx_translate |-> [p \in {aId, bId} |-> [gpot |-> <<>>, spike |-> <<>>]],
     data |-> EmptyData]

\* The translation table a new Connectivity gets: gpot ports first, then spike.
DefaultTranslate(nGpot, nSpike) ==
    [gpot |-> [k \in 1..nGpot |-> k - 1],
     spike |-> [k \in 1..nSpike |-> nGpot + k - 1]]

\* core.Connectivity(N_A_gpot, N_A_spike, N_B_gpot, N_B_spike, N_mult, A_id, B_id)
Connectivity(nAg, nAs, nBg, nBs, nMult, aId, bId) ==
    [cls |-> "Connectivity", A_id |-> aId, B_id |-> bId,
     N_A |-> nAg + nAs, N_B |-> nBg + nBs, N_mult |-> nMult,
     N_A_gpot |-> nAg, N_A_spike |-> nAs, N_B_gpot |-> nBg, N_B_spike |-> nBs,
     idx_translate |-> [p \in {aId, bId} |->
                          IF p = aId THEN DefaultTranslate(nAg, nAs)
                                     ELSE DefaultTranslate(nBg, nBs)],
     data |-> EmptyData]

\* The value of c and c2 while no object has been built.
NoConn == BaseConnectivity(0, 0, 0, "", "")

----------------------------------------------------------------------------
(* NetworkX MultiDiGraph *)

\* The value of a node that has no neuron_type attribute.
NoAttr == "<absent>"

\* nx.MultiDiGraph(): node maps a label to its neuron_type attribute, adj maps
\* an ordered pair of labels that has edges to its key dictionary (edge key ->
\* attribute dictionary).
EmptyGraph == [node |-> [x \in {} |-> NoAttr], adj |-> [x \in {} |-> <<>>]]

EmptyAttrs == [x \in {} |-> IntV(0)]

\* g.add_nodes_from(labels)
AddNodesFrom(gg, labels) ==
    [gg EXCEPT !.node = [x \in DOMAIN gg.node \cup labels |->
                            IF x \in DOMAIN gg.node THEN gg.node[x] ELSE NoAttr]]

\* g.node[label]['neuron_type'] = type
SetNeuronType(gg, label, type) ==
    [gg EXCEPT !.node = [x \in DOMAIN gg.node |-> IF x = label THEN type ELSE gg.node[x]]]

\* The key MultiDiGraph.add_edge gives an edge added without one: the number
\* of edges the pair has, raised until unused.
RECURSIVE FreeKey(_, _)
FreeKey(keydict, k) == IF k \in DOMAIN keydict THEN FreeKey(keydict, k + 1) ELSE k

\* len(g[u][v]) where the pair has edges, else 0
NumEdges(gg, u, v) ==
    IF <<u, v>> \in DOMAIN gg.adj THEN Cardinality(DOMAIN gg.adj[<<u, v>>]) ELSE 0

\* g.add_edge(u, v, key, attrs)
AddEdgeKey(gg, u, v, key, attrs) ==
    LET old == IF <<u, v>> \in DOMAIN gg.adj THEN gg.adj[<<u, v>>]
                                           ELSE [x \in {} |-> EmptyAttrs]
        new == [x \in DOMAIN old \cup {key} |-> IF x = key THEN attrs ELSE old[x]]
    IN [AddNodesFrom(gg, {u, v}) EXCEPT
          !.adj = [p \in DOMAIN gg.adj \cup {<<u, v>>} |->
                     IF p = <<u, v>> THEN new ELSE gg.adj[p]]]

\* g.add_edge(u, v): no key is passed, so the edge gets the next free key.
AddEdge(gg, u, v) ==
    LET old == IF <<u, v>> \in DOMAIN gg.adj THEN gg.adj[<<u, v>>]
                                           ELSE [x \in {} |-> EmptyAttrs]
    IN AddEdgeKey(gg, u, v, FreeKey(old, Cardinality(DOMAIN old)), EmptyAttrs)

\* Whether g[u][v][key] exists.
HasEdge(gg, u, v, key) ==
    /\ <<u, v>> \in DOMAIN gg.adj
    /\ key \in DOMAIN gg.adj[<<u, v>>]

\* g[u][v][key][name] = val
SetEdgeAttr(gg, u, v, key, name, val) ==
    LET old == gg.adj[<<u, v>>][key]
        new == [x \in DOMAIN old \cup {name} |-> IF x = name THEN val ELSE old[x]]
    IN [gg EXCEPT !.adj[<<u, v>>][key] = new]

----------------------------------------------------------------------------
(* conn_to_graph *)

\* Parameter names, other than 'conn', of the generated connectivity objects.
ParamNames == <<"id", "weight">>

Reverse(s) == [k \in 1..Len(s) |-> s[Len(s) + 1 - k]]

\* The keys of c._data that end in /conn, as (source, destination, slot); a
\* dictionary's key order is arbitrary, rev chooses between two orders.
ConnKeys(cc, rev) ==
    LET s == [p \in 1..(2 * cc.N_mult) |->
                IF p <= cc.N_mult THEN <<cc.A_id, cc.B_id, p - 1>>
                                  ELSE <<cc.B_id, cc.A_id, p - 1 - cc.N_mult>>]
    IN IF rev THEN Reverse(s) ELSE s

\* The keys of c._data that do not end in /conn, as (source, destination,
\* slot, name).
ParamKeys(cc, rev) ==
    LET ck == ConnKeys(cc, rev)
        np == Len(ParamNames)
    IN [p \in 1..(Len(ck) * np) |->
          <<ck[((p - 1) \div np) + 1][1], ck[((p - 1) \div np) + 1][2],
            ck[((p - 1) \div np) + 1][3], ParamNames[((p - 1) % np) + 1]>>]

\* itertools.product(xrange(c.N(A_id)), xrange(c.N(B_id))), as a sequence
Product(n1, n2) == [p \in 1..(n1 * n2) |-> <<(p - 1) \div n2, (p - 1) % n2>>]

\* TagNodes without the translation: the type goes to the node at the raw
\* position i.
RECURSIVE TagNodesRaw(_, _, _, _, _)
TagNodesRaw(gg, id, table, type, i) ==
    IF i > Len(table) THEN gg
    ELSE TagNodesRaw(SetNeuronType(gg, Label(id, i - 1), type), id, table, type, i + 1)

\* Lines 91-102: tag the node each (type, i) translates to.
RECURSIVE TagNodes(_, _, _, _, _)
TagNodes(gg, id, table, type, i) ==
    IF i > Len(table) THEN gg
    ELSE TagNodes(SetNeuronType(gg, Label(id, table[i]), type), id, table, type, i + 1)

TagAll(gg, cc) ==
    LET g1 == TagNodes(gg, cc.A_id, cc.idx_translate[cc.A_id].gpot, "gpot", 1)
        g2 == TagNodes(g1, cc.B_id, cc.idx_translate[cc.B_id].gpot, "gpot", 1)
        g3 == TagNodes(g2, cc.A_id, cc.idx_translate[cc.A_id].spike, "spike", 1)
    IN TagNodes(g3, cc.B_id, cc.idx_translate[cc.B_id].spike, "spike", 1)

\* Lines 108-114 for one key: an edge for every (i, j) whose flag equals 1.
RECURSIVE EdgesOfKey(_, _, _, _, _)
EdgesOfKey(gg, cc, key, cells, p) ==
    IF p > Len(cells) THEN gg
    ELSE LET i == cells[p][1]
             j == cells[p][2]
             g1 == IF EqOne(Get(cc, key[1], i, key[2], j, key[3], "conn"))
                   THEN AddEdge(gg, Label(key[1], i), Label(key[2], j))
                   ELSE gg
         IN EdgesOfKey(g1, cc, key, cells, p + 1)

\* Lines 105-114: the loop over the /conn keys.
RECURSIVE CreateEdges(_, _, _, _)
CreateEdges(gg, cc, keys, k) ==
    IF k > Len(keys) THEN gg
    ELSE CreateEdges(
           EdgesOfKey(gg, cc, keys[k],
                      Product(N(cc, keys[k][1]), N(cc, keys[k][2])), 1),
           cc, keys, k + 1)

\* A call that raised: the exception's kind in place of a result.
Raise(kind) == [raised |-> TRUE, kind |-> kind, val |-> <<>>]

Return(val) == [raised |-> FALSE, kind |-> "", val |-> val]

\* Lines 121-132 for one key: a nonzero value is written to g[u][v][conn],
\* which raises KeyError when the pair has no edge with that key.
RECURSIVE AttrsOfKey(_, _, _, _, _)
AttrsOfKey(gg, cc, key, cells, p) ==
    IF p > Len(cells) THEN Return(gg)
    ELSE LET i == cells[p][1]
             j == cells[p][2]
             u == Label(key[1], i)
             v == Label(key[2], j)
             val == Get(cc, key[1], i, key[2], j, key[3], key[4])
         IN IF Truthy(val)
            THEN IF HasEdge(gg, u, v, key[3])
                 THEN AttrsOfKey(SetEdgeAttr(gg, u, v, key[3], key[4], val),
                                 cc, key, cells, p + 1)
                 ELSE Raise("KeyError")
            ELSE AttrsOfKey(gg, cc, key, cells, p + 1)

\* Lines 118-132: the loop over the other keys.
RECURSIVE SetAttributes(_, _, _, _)
SetAttributes(gg, cc, keys, k) ==
    IF k > Len(keys) THEN Return(gg)
    ELSE LET r == AttrsOfKey(gg, cc, keys[k],
                             Product(N(cc, keys[k][1]), N(cc, keys[k][2])), 1)
         IN IF r.raised THEN r ELSE SetAttributes(r.val, cc, keys, k + 1)

\* conn_to_graph(c)
conn_to_graph(cc, rev) ==
    LET A_nodes == {Label(cc.A_id, i) : i \in 0..(cc.N_A - 1)}
        B_nodes == {Label(cc.B_id, i) : i \in 0..(cc.N_B - 1)}
        g1 == AddNodesFrom(AddNodesFrom(EmptyGraph, A_nodes), B_nodes)
        g2 == IF cc.cls = "Connectivity" THEN TagAll(g1, cc) ELSE g1
        g3 == CreateEdges(g2, cc, ConnKeys(cc, rev), 1)
    IN SetAttributes(g3, cc, ParamKeys(cc, rev), 1)

----------------------------------------------------------------------------
(* graph_to_conn *)

E_bipartite == "ValueError: graph must be bipartite"
E_conn_type == "ValueError: invalid connectivity type"
E_label == "ValueError: incorrectly formatted node label"
E_int == "ValueError: invalid literal for int()"
E_format == "ValueError: incorrectly formatted graph"
E_consecutive == "ValueError: nodes must be numbered consecutively from 0..N"
E_neuron_type == "ValueError: invalid neuron type"
E_key == "KeyError: 'neuron_type'"
E_max == "ValueError: max() arg is an empty sequence"
E_assert == "AssertionError"

\* nx.is_bipartite(g): the graph, taken as undirected, has a 2-colouring.
IsBipartite(gg) ==
    \E col \in [DOMAIN gg.node -> {0, 1}] :
        \A p \in DOMAIN gg.adj : col[p[1]] # col[p[2]]

\* Lines 168-175, the errors the loop over g.nodes() can raise: the first
\* offending label in the node dictionary's order, which is arbitrary.
LabelErrors(gg) ==
    {IF l.form = "nocolon" THEN E_label ELSE E_int :
        l \in {x \in DOMAIN gg.node : x.form # "ok"}}

\* node_dict: population id -> set of indices
NodeDict(gg) ==
    [id \in {l.id : l \in DOMAIN gg.node} |->
        {l.n : l \in {x \in DOMAIN gg.node : x.id = id}}]

\* The slot of a one-character str key in a CPython 2 dictionary of 8 slots:
\* the low three bits of its hash, (ord(ch) ^ 1) & 7.
HashSlot(id) ==
    CASE id = "A" -> 0
      [] id = "B" -> 3
      [] id = "C" -> 2
      [] OTHER -> 7

\* node_dict.keys() for a dictionary of two keys: in slot order.
TwoKeys(ids) ==
    LET a == CHOOSE x \in ids : \A y \in ids : HashSlot(x) <= HashSlot(y)
        b == CHOOSE x \in ids : x # a
    IN <<a, b>>

SetMax(S) == CHOOSE x \in S : \A y \in S : y <= x

\* NotConsecutive by the size of the set alone.
NotConsecutiveBySize(S) == Cardinality(S) # SetMax(S) + 1

\* set(range(max(S)+1)) != S
NotConsecutive(S) == (0..SetMax(S)) # S

\* Lines 196-209 for one population: for n in node_dict[id], the indices in
\* the order of a set of small integers (ascending), counting the types up to
\* the first node that raises.
RECURSIVE CountTypes(_, _, _, _)
CountTypes(gg, id, ns, acc) ==
    IF ns = {} THEN Return(acc)
    ELSE LET n == CHOOSE x \in ns : \A y \in ns : x <= y
             type == gg.node[Label(id, n)]
         IN IF type = NoAttr THEN Raise(E_key)
            ELSE IF type = "gpot"
                 THEN CountTypes(gg, id, ns \ {n}, [acc EXCEPT !.gpot = @ + 1])
            ELSE IF type = "spike"
                 THEN CountTypes(gg, id, ns \ {n}, [acc EXCEPT !.spike = @ + 1])
            ELSE Raise(E_neuron_type)

\* Line 212: max([len(g[u][v]) for u,v in set(g.edges())])
MaxParallel(gg) ==
    IF DOMAIN gg.adj = {} THEN Raise(E_max)
    ELSE Return(SetMax({Cardinality(DOMAIN gg.adj[p]) : p \in DOMAIN gg.adj}))

\* edge_dict.keys(): the integer keys in slot order, ascending.
RECURSIVE KeysAscending(_)
KeysAscending(S) ==
    IF S = {} THEN <<>>
    ELSE LET m == CHOOSE x \in S : \A y \in S : x <= y
         IN <<m>> \o KeysAscending(S \ {m})

\* c[...] = val, which the store refuses for a key it does not hold.
SetItem(res, src, i, dst, j, conn, name, val) ==
    IF res.raised THEN res
    ELSE IF val = Raised THEN Raise(E_int)
    ELSE IF ~ValidKey(res.val, src, i, dst, j, conn) THEN Raise(E_assert)
    ELSE Return(SetData(res.val, src, i, dst, j, conn, name, val))

\* SetParamsBase without the case of 'id': every value is converted by float().
RECURSIVE SetParamsBaseAllFloat(_, _, _, _, _, _, _, _)
SetParamsBaseAllFloat(res, src, i, dst, j, conn, attrs, names) ==
    IF names = {} THEN res
    ELSE LET param == CHOOSE x \in names : TRUE
             val == PyFloat(attrs[param])
         IN SetParamsBaseAllFloat(SetItem(res, src, i, dst, j, conn, param, val),
                                  src, i, dst, j, conn, attrs, names \ {param})

\* Lines 232-239: the parameters of one edge, BaseConnectivity branch.
RECURSIVE SetParamsBase(_, _, _, _, _, _, _, _)
SetParamsBase(res, src, i, dst, j, conn, attrs, names) ==
    IF names = {} THEN res
    ELSE LET param == CHOOSE x \in names : TRUE
             val == IF param = "id" THEN PyInt(attrs[param]) ELSE PyFloat(attrs[param])
         IN SetParamsBase(SetItem(res, src, i, dst, j, conn, param, val),
                          src, i, dst, j, conn, attrs, names \ {param})

\* Lines 243-250: the parameters of one edge, Connectivity branch.
RECURSIVE SetParamsTyped(_, _, _, _, _, _, _, _)
SetParamsTyped(res, src, i, dst, j, conn, attrs, names) ==
    IF names = {} THEN res
    ELSE LET param == CHOOSE x \in names : TRUE
             val == IF param = "id" THEN PyInt(attrs[param]) ELSE PyFloat(attrs[param])
         IN SetParamsTyped(SetItem(res, src, i, dst, j, conn, param, val),
                           src, i, dst, j, conn, attrs, names \ {param})

\* SetEdges with every parallel edge of a pair written at slot 0, in place of
\* its position among the pair's edges.
RECURSIVE SetEdgesAtSlotZero(_, _, _, _, _, _)
SetEdgesAtSlotZero(res, ct, u, v, edge_dict, keys) ==
    IF keys = <<>> THEN res
    ELSE LET k == Head(keys)
             r1 == SetItem(res, u.id, u.n, v.id, v.n, 0, "conn", IntV(1))
             r2 == IF ct = "BaseConnectivity"
                   THEN SetParamsBase(r1, u.id, u.n, v.id, v.n, 0,
                                      edge_dict[k], DOMAIN edge_dict[k])
                   ELSE SetParamsTyped(r1, u.id, u.n, v.id, v.n, 0,
                                       edge_dict[k], DOMAIN edge_dict[k])
         IN SetEdgesAtSlotZero(r2, ct, u, v, edge_dict, Tail(keys))

\* Lines 228-250: for conn, k in enumerate(edge_dict.keys())
RECURSIVE SetEdges(_, _, _, _, _, _)
SetEdges(res, ct, u, v, edge_dict, keys) ==
    IF keys = <<>> THEN res
    ELSE LET conn == Cardinality(DOMAIN edge_dict) - Len(keys)
             k == Head(keys)
             r1 == SetItem(res, u.id, u.n, v.id, v.n, conn, "conn", IntV(1))
             r2 == IF ct = "BaseConnectivity"
                   THEN SetParamsBase(r1, u.id, u.n, v.id, v.n, conn,
                                      edge_dict[k], DOMAIN edge_dict[k])
                   ELSE SetParamsTyped(r1, u.id, u.n, v.id, v.n, conn,
                                       edge_dict[k], DOMAIN edge_dict[k])
         IN SetEdges(r2, ct, u, v, edge_dict, Tail(keys))

\* Lines 223-250 for the edges of one ordered pair of nodes.
SetPair(res, ct, gg, p) ==
    SetEdges(res, ct, p[1], p[2], gg.adj[p], KeysAscending(DOMAIN gg.adj[p]))

\* Lines 222-250: the loop over g.edges(), when no pair raises.
RECURSIVE SetAllPairs(_, _, _, _)
SetAllPairs(res, ct, gg, pairs) ==
    IF pairs = {} THEN res
    ELSE LET p == CHOOSE x \in pairs : TRUE
         IN SetAllPairs(SetPair(res, ct, gg, p), ct, gg, pairs \ {p})

\* Lines 222-253: the model returned, or the error of the pair that g.edges()
\* yields first among those that raise (the order is arbitrary).
SetParameters(cc, ct, gg) ==
    LET bad == {p \in DOMAIN gg.adj : SetPair(Return(cc), ct, gg, p).raised}
    IN IF bad = {} THEN {SetAllPairs(Return(cc), ct, gg, DOMAIN gg.adj)}
       ELSE {SetPair(Return(cc), ct, gg, p) : p \in bad}

\* Lines 189-219: count the types, infer N_mult and allocate the object.
Allocate(gg, ct, A_id, B_id, nd) ==
    LET zero == [gpot |-> 0, spike |-> 0]
        ta == IF ct = "Connectivity"
              THEN CountTypes(gg, A_id, nd[A_id], zero) ELSE Return(zero)
        tb == IF ct = "Connectivity" /\ ~ta.raised
              THEN CountTypes(gg, B_id, nd[B_id], zero) ELSE Return(zero)
        nm == MaxParallel(gg)
    IN IF ta.raised THEN ta
       ELSE IF tb.raised THEN tb
       ELSE IF nm.raised THEN nm
       ELSE IF ct = "BaseConnectivity"
            THEN Return(BaseConnectivity(Cardinality(nd[A_id]), Cardinality(nd[B_id]),
                                         nm.val, A_id, B_id))
            ELSE Return(Connectivity(ta.val.gpot, ta.val.spike, tb.val.gpot,
                                     tb.val.spike, nm.val, A_id, B_id))

\* Categorize with the count of the prefixes taken before the labels are
\* parsed.
CategorizePrefixesFirst(gg, ct) ==
    LET nd == NodeDict(gg)
        ab == TwoKeys(DOMAIN nd)
        al == Allocate(gg, ct, ab[1], ab[2], nd)
    IN IF Cardinality(DOMAIN nd) # 2 THEN {Raise(E_format)}
       ELSE IF LabelErrors(gg) # {} THEN {Raise(e) : e \in LabelErrors(gg)}
       ELSE IF NotConsecutive(nd[ab[1]]) \/ NotConsecutive(nd[ab[2]])
            THEN {Raise(E_consecutive)}
       ELSE IF al.raised THEN {al}
       ELSE SetParameters(al.val, ct, gg)

\* Lines 163-253, after the three checks of the arguments.
Categorize(gg, ct) ==
    LET nd == NodeDict(gg)
        ab == TwoKeys(DOMAIN nd)
        al == Allocate(gg, ct, ab[1], ab[2], nd)
    IN IF LabelErrors(gg) # {} THEN {Raise(e) : e \in LabelErrors(gg)}
       ELSE IF Cardinality(DOMAIN nd) # 2 THEN {Raise(E_format)}
       ELSE IF NotConsecutive(nd[ab[1]]) \/ NotConsecutive(nd[ab[2]])
            THEN {Raise(E_consecutive)}
       ELSE IF al.raised THEN {al}
       ELSE SetParameters(al.val, ct, gg)

\* graph_to_conn(g, conn_type): the set of outcomes, each a returned object
\* or the exception raised.
graph_to_conn(gg, ct) ==
    IF ~IsBipartite(gg) THEN {Raise(E_bipartite)}
    ELSE IF ct \notin {"BaseConnectivity", "Connectivity"} THEN {Raise(E_conn_type)}
    ELSE Categorize(gg, ct)

----------------------------------------------------------------------------
(* Inputs and actions *)

\* Largest population size of a Connectivity with a free translation table.
MaxTagN == 3
\* Largest number of nodes of a graph built for validation.
MaxNodes == 3
\* Largest number of edges of a graph built for validation.
MaxValEdges == 1
\* Largest number of edges of a graph built for decoding.
MaxEdges == 3
\* Largest edge key of a graph built for decoding.
MaxEdgeKey == 2

\* Values written to a connectivity object under each parameter name.
ValuesOf(name) ==
    CASE name = "conn" -> {IntV(1)}
      [] name = "id" -> {IntV(5)}
      [] OTHER -> {FloatV(3)}

\* The (gpot, spike) counts of a population of at most n ports.
Splits(n) == {s \in (0..n) \X (0..n) : s[1] + s[2] \in 1..n}

\* Connectivity objects as constructed, before any write.
NewModels ==
    {BaseConnectivity(nA, nB, nM, "A", "B") :
        nA \in 1..MaxN, nB \in 1..MaxN, nM \in 1..MaxMult}
    \cup
    {Connectivity(sa[1], sa[2], sb[1], sb[2], nM, "A", "B") :
        sa \in Splits(MaxN), sb \in Splits(1), nM \in 1..MaxMult}

\* The translation tables of a population with counts s: every one-to-one
\* assignment of the (type, i) pairs to the indices 0..N-1.
Tables(s) ==
    LET n == s[1] + s[2]
        perms == {f \in [1..n -> 0..(n - 1)] : \A x, y \in 1..n : f[x] = f[y] => x = y}
    IN {[gpot |-> [k \in 1..s[1] |-> f[k]],
         spike |-> [k \in 1..s[2] |-> f[s[1] + k]]] : f \in perms}

\* The populations of a Connectivity: counts and a translation table.
Populations == UNION {{<<s, t>> : t \in Tables(s)} : s \in Splits(MaxTagN)}

\* Connectivity objects whose translation tables are arbitrary.
TranslatedModels ==
    {[Connectivity(a[1][1], a[1][2], b[1][1], b[1][2], 1, "A", "B") EXCEPT
        !.idx_translate = [p \in {"A", "B"} |-> IF p = "A" THEN a[2] ELSE b[2]]] :
        a \in Populations, b \in Populations}

\* c[src, i, dst, j, conn, name] = val on the object being populated.
Populate ==
    /\ pc = "model"
    /\ Cardinality(DOMAIN c.data) < MaxWrites
    /\ \E d \in {<<c.A_id, c.B_id>>, <<c.B_id, c.A_id>>} :
       \E i \in 0..(N(c, d[1]) - 1), j \in 0..(N(c, d[2]) - 1) :
       \E conn \in 0..(c.N_mult - 1) :
       \E name \in {"conn", "id", "weight"} :
       \E val \in ValuesOf(name) :
          c' = SetItem(Return(c), d[1], i, d[2], j, conn, name, val).val
    /\ UNCHANGED <<g, c2, conn_type, err, pc>>

\* g = conn_to_graph(c)
ConnToGraph ==
    /\ pc = "model"
    /\ \E rev \in BOOLEAN :
         LET r == conn_to_graph(c, rev)
         IN IF r.raised
            THEN /\ err' = r.kind
                 /\ pc' = "encode raised"
                 /\ g' = g
            ELSE /\ g' = r.val
                 /\ pc' = "graph"
                 /\ err' = err
    /\ UNCHANGED <<c, c2, conn_type>>

\* c2 = graph_to_conn(g, ct)
GraphToConn(ct) ==
    /\ pc = "graph"
    /\ conn_type' = ct
    /\ \E r \in graph_to_conn(g, ct) :
         IF r.raised
         THEN /\ err' = r.kind
              /\ pc' = "decode raised"
              /\ c2' = c2
         ELSE /\ c2' = r.val
              /\ pc' = "decoded"
              /\ err' = err
    /\ UNCHANGED <<c, g>>

\* A graph from elsewhere gets a node, with or without a neuron_type. A node
\* whose label the label loop or the numbering check rejects gets none: line
\* 197 is not reached for a graph that holds such a node.
AddGraphNode(labels, types) ==
    /\ pc = "graph"
    /\ Cardinality(DOMAIN g.node) < MaxNodes
    /\ \E l \in labels \ DOMAIN g.node, t \in types :
         /\ (l.form # "ok" \/ l.n < 0) => t = NoAttr
         /\ g' = SetNeuronType(AddNodesFrom(g, {l}), l, t)
    /\ UNCHANGED <<c, c2, conn_type, err, pc>>

\* The number of edges of the graph.
Size(gg) ==
    LET RECURSIVE Sum(_)
        Sum(S) == IF S = {} THEN 0
                  ELSE LET p == CHOOSE x \in S : TRUE
                       IN Cardinality(DOMAIN gg.adj[p]) + Sum(S \ {p})
    IN Sum(DOMAIN gg.adj)

\* A graph from elsewhere gets an edge between two of its nodes.
AddGraphEdge(pairs, keys, maps, limit) ==
    /\ pc = "graph"
    /\ Size(g) < limit
    /\ \E p \in pairs, k \in keys, m \in maps :
         /\ ~HasEdge(g, p[1], p[2], k)
         /\ g' = AddEdgeKey(g, p[1], p[2], k, m)
    /\ UNCHANGED <<c, c2, conn_type, err, pc>>

InitModel(models) ==
    /\ c \in models
    /\ g = EmptyGraph
    /\ c2 = NoConn
    /\ conn_type = ""
    /\ err = ""
    /\ pc = "model"

InitGraph(graphs) ==
    /\ c = NoConn
    /\ g \in graphs
    /\ c2 = NoConn
    /\ conn_type = ""
    /\ err = ""
    /\ pc = "graph"

\* Encoding and the round trip: a populated object is encoded, the graph is
\* decoded to the object's own class.
InitEnc == InitModel(NewModels)

NextEnc == Populate \/ ConnToGraph \/ GraphToConn(c.cls)

SpecEnc == InitEnc /\ [][NextEnc]_vars

\* Encoding of Connectivity objects with arbitrary translation tables.
InitTag == InitModel(TranslatedModels)

NextTag == ConnToGraph

SpecTag == InitTag /\ [][NextTag]_vars

\* Node labels of the graphs built for validation: 'A:0', 'A:1', 'A:2',
\* 'A:-1', 'B:0', 'C:0', a label without a colon and one whose index is no
\* integer.
ValLabels ==
    {Label("A", 0), Label("A", 1), Label("A", 2), Label("A", -1),
     Label("B", 0), Label("C", 0),
     [id |-> "X", n |-> 0, form |-> "nocolon"],
     [id |-> "A", n |-> 0, form |-> "nonint"]}

\* neuron_type values of the nodes of a graph from elsewhere.
ValTypes == {NoAttr, "gpot", "spike", "other"}

ConnTypes == {"BaseConnectivity", "Connectivity", "other"}

\* Validation: graphs of arbitrary labels and types with few, bare edges.
InitVal == InitGraph({EmptyGraph})

NextVal ==
    \/ AddGraphNode(ValLabels, ValTypes)
    \/ AddGraphEdge((DOMAIN g.node) \X (DOMAIN g.node), {0}, {EmptyAttrs}, MaxValEdges)
    \/ \E ct \in ConnTypes : GraphToConn(ct)

SpecVal == InitVal /\ [][NextVal]_vars

\* The nodes of the graphs built for decoding: 'A:0', 'B:0' and 'B:1', each
\* with a neuron_type (which graph_to_conn reads for a Connectivity only).
DecGraphs ==
    {SetNeuronType(SetNeuronType(SetNeuronType(
        AddNodesFrom(EmptyGraph, {Label("A", 0), Label("B", 0), Label("B", 1)}),
        Label("A", 0), "gpot"), Label("B", 0), "gpot"), Label("B", 1), "spike")}

\* Attribute dictionaries of the edges of a graph from elsewhere: numbers and
\* the strings a GEXF file yields.
DecAttrs ==
    {EmptyAttrs,
     [x \in {"id", "weight"} |-> IF x = "id" THEN StrV(50, FALSE) ELSE StrV(3, TRUE)],
     [x \in {"id", "weight"} |-> IF x = "id" THEN FloatV(57) ELSE IntV(2)],
     [x \in {"id"} |-> StrV(3, TRUE)],
     [x \in {"conn"} |-> StrV(0, FALSE)]}

\* The ordered pairs of nodes of different populations.
CrossPairs(gg) == {p \in (DOMAIN gg.node) \X (DOMAIN gg.node) : p[1].id # p[2].id}

\* Decoding: well-formed node sets with parallel, attributed edges.
InitDec == InitGraph(DecGraphs)

\* The keys of the edges built for decoding: the one add_edge gives a first
\* edge, and one that leaves a gap after it.
DecKeys == {0, MaxEdgeKey}

NextDec ==
    \/ AddGraphEdge(CrossPairs(g), DecKeys, DecAttrs, MaxEdges)
    \/ \E ct \in {"BaseConnectivity", "Connectivity"} : GraphToConn(ct)

SpecDec == InitDec /\ [][NextDec]_vars

----------------------------------------------------------------------------
(* Properties of conn_to_graph *)

\* The two directions in which an object stores connections.
Dirs(cc) == {<<cc.A_id, cc.B_id>>, <<cc.B_id, cc.A_id>>}

\* The (source, i, destination, j, slot) triples of an object.
Triples(cc) ==
    UNION {{<<d[1], i, d[2], j, s>> :
               i \in 0..(N(cc, d[1]) - 1), j \in 0..(N(cc, d[2]) - 1),
               s \in 0..(cc.N_mult - 1)} : d \in Dirs(cc)}

\* Whether the 'conn' flag of a triple is set.
Connected(cc, q) == EqOne(Get(cc, q[1], q[2], q[3], q[4], q[5], "conn"))

\* The attribute map of a triple: the parameters, other than 'conn', set there.
AttrMap(cc, q) ==
    LET names == {n \in {ParamNames[k] : k \in 1..Len(ParamNames)} :
                    Truthy(Get(cc, q[1], q[2], q[3], q[4], q[5], n))}
    IN [n \in names |-> Get(cc, q[1], q[2], q[3], q[4], q[5], n)]

\* C2: once conn_to_graph has returned, the graph has an edge u -> v with
\* parallel-edge key s if and only if the 'conn' flag of the triple
\* (u, s, v) is set, and it has no other edge.
C2_EdgeKeyIsSlot ==
    pc = "graph" =>
        /\ \A q \in Triples(c) :
              HasEdge(g, Label(q[1], q[2]), Label(q[3], q[4]), q[5]) <=> Connected(c, q)
        /\ \A p \in DOMAIN g.adj : \A k \in DOMAIN g.adj[p] :
              <<p[1].id, p[1].n, p[2].id, p[2].n, k>> \in Triples(c)

\* C3: conn_to_graph returns a graph for every object; where the 'conn' flag
\* of a triple is set the edge of that triple carries every parameter stored
\* there, with its value, and where it is not set the graph has no edge (and
\* so no attribute) for the triple.
C3_AttributesFollowConn ==
    /\ pc # "encode raised"
    /\ pc = "graph" =>
          \A q \in Triples(c) :
             LET u == Label(q[1], q[2])
                 v == Label(q[3], q[4])
             IN IF Connected(c, q)
                THEN /\ HasEdge(g, u, v, q[5])
                     /\ g.adj[<<u, v>>][q[5]] = AttrMap(c, q)
                ELSE ~HasEdge(g, u, v, q[5])

\* A well-formed object: a parameter is set only where the 'conn' flag is,
\* and there is at least one connection.
WellFormed(cc) ==
    /\ \A q \in Triples(cc) : ~Connected(cc, q) => DOMAIN AttrMap(cc, q) = {}
    /\ \E q \in Triples(cc) : Connected(cc, q)

\* The multiset of attribute maps of the connections from (src, i) to
\* (dst, j): attribute map -> number of slots that carry it.
AttrBag(cc, src, i, dst, j) ==
    LET slots == {s \in 0..(cc.N_mult - 1) : Connected(cc, <<src, i, dst, j, s>>)}
        maps == {AttrMap(cc, <<src, i, dst, j, s>>) : s \in slots}
    IN [m \in maps |->
          Cardinality({s \in slots : AttrMap(cc, <<src, i, dst, j, s>>) = m})]

\* Same population ids, sizes and per-type counts.
SameShape(c_a, c_b) ==
    /\ c_a.A_id = c_b.A_id /\ c_a.B_id = c_b.B_id
    /\ c_a.N_A = c_b.N_A /\ c_a.N_B = c_b.N_B
    /\ c_a.N_A_gpot = c_b.N_A_gpot /\ c_a.N_A_spike = c_b.N_A_spike
    /\ c_a.N_B_gpot = c_b.N_B_gpot /\ c_a.N_B_spike = c_b.N_B_spike

\* C1: for a well-formed object both conversions return, and the object
\* decoded from the graph has the ids, sizes and per-type counts of the
\* original and, for every ordered pair, the same multiset of attribute maps.
C1_RoundTrip ==
    WellFormed(c) =>
        /\ pc \notin {"encode raised", "decode raised"}
        /\ pc = "decoded" =>
              /\ SameShape(c, c2)
              /\ \A d \in Dirs(c) :
                 \A i \in 0..(N(c, d[1]) - 1), j \in 0..(N(c, d[2]) - 1) :
                    AttrBag(c, d[1], i, d[2], j) = AttrBag(c2, d[1], i, d[2], j)

\* C4: in the graph of a Connectivity object every node has exactly one
\* neuron_type; node '<id>:<n>' is 'gpot' if and only if n is the translation
\* of some ('gpot', k), and 'spike' if and only if it is that of some
\* ('spike', k).
C4_TypeByTranslation ==
    (pc = "graph" /\ c.cls = "Connectivity") =>
        \A id \in {c.A_id, c.B_id} : \A n \in 0..(N(c, id) - 1) :
           LET t == c.idx_translate[id]
               type == g.node[Label(id, n)]
           IN /\ type \in {"gpot", "spike"}
              /\ type = "gpot" <=> \E k \in DOMAIN t.gpot : t.gpot[k] = n
              /\ type = "spike" <=> \E k \in DOMAIN t.spike : t.spike[k] = n

\* The example of the specification: gpot 0 -> 0, gpot 1 -> 2, spike 0 -> 1
\* tags A:0 and A:2 'gpot' and A:1 'spike'.
C4_Witness ==
    /\ pc = "graph"
    /\ c.cls = "Connectivity"
    /\ c.idx_translate["A"] = [gpot |-> <<0, 2>>, spike |-> <<1>>]
    /\ g.node[Label("A", 0)] = "gpot"
    /\ g.node[Label("A", 1)] = "spike"
    /\ g.node[Label("A", 2)] = "gpot"

----------------------------------------------------------------------------
(* Properties of graph_to_conn *)

\* graph_to_conn has been applied to g.
Applied == pc \in {"decoded", "decode raised"}

\* The requirements on the labels: every label is '<id>:<index>' with a
\* non-negative integer index.
LabelsValid(gg) == \A l \in DOMAIN gg.node : l.form = "ok" /\ l.n >= 0

\* Exactly two distinct id prefixes occur.
TwoPrefixes(gg) == Cardinality({l.id : l \in DOMAIN gg.node}) = 2

\* Each population's indices are 0..max, without gaps.
Consecutive(gg) ==
    \A id \in {l.id : l \in DOMAIN gg.node} :
       LET S == {l.n : l \in {x \in DOMAIN gg.node : x.id = id}}
       IN \A n \in S : n >= 0 /\ (n > 0 => n - 1 \in S)

\* Every node is tagged 'gpot' or 'spike'.
TypesValid(gg) == \A l \in DOMAIN gg.node : gg.node[l] \in {"gpot", "spike"}

\* The graph passes the label, two-prefix and consecutive-numbering checks.
StructurallyValid(gg) == LabelsValid(gg) /\ TwoPrefixes(gg) /\ Consecutive(gg)

\* The number of parallel edges of the pair that has most.
MostParallel(gg) ==
    SetMax({0} \cup {Cardinality(DOMAIN gg.adj[p]) : p \in DOMAIN gg.adj})

\* C5: for a graph that passes validation graph_to_conn returns an object; its
\* N_mult is the largest number of parallel edges of an ordered pair, and 1
\* when the graph has no edge.
C5_Multiplicity ==
    (/\ Applied
     /\ StructurallyValid(g)
     /\ conn_type \in {"BaseConnectivity", "Connectivity"}
     /\ conn_type = "Connectivity" => TypesValid(g)
     /\ \A p \in DOMAIN g.adj : p[1].id # p[2].id
     /\ \A p \in DOMAIN g.adj : \A k \in DOMAIN g.adj[p] : \A n \in DOMAIN g.adj[p][k] :
           (IF n = "id" THEN PyInt(g.adj[p][k][n]) ELSE PyFloat(g.adj[p][k][n])) # Raised)
    => /\ pc = "decoded"
       /\ c2.N_mult = IF DOMAIN g.adj = {} THEN 1 ELSE MostParallel(g)

\* The check, in the order label parsing, two prefixes, consecutive
\* numbering, neuron type, that a graph violates first. Label parsing is what
\* lines 168-175 do: the label matches (.+):(.+) and int() accepts the index.
FirstViolation(gg, ct) ==
    IF \E l \in DOMAIN gg.node : l.form # "ok" THEN "label"
    ELSE IF ~TwoPrefixes(gg) THEN "prefixes"
    ELSE IF ~Consecutive(gg) THEN "consecutive"
    ELSE IF ct = "Connectivity" /\ ~TypesValid(gg) THEN "neuron type"
    ELSE "none"

\* The check that raises an error.
CheckOf(e) ==
    CASE e \in {E_label, E_int} -> "label"
      [] e = E_format -> "prefixes"
      [] e = E_consecutive -> "consecutive"
      [] e \in {E_neuron_type, E_key} -> "neuron type"
      [] OTHER -> "other"

SlotOf(gg, p, k) == Cardinality({x \in DOMAIN gg.adj[p] : x < k})

\* C7: in the object returned, the value stored for an attribute of an edge,
\* at the edge's (i, slot, j) and under the attribute's name, is int(value)
\* for the name 'id' and float(value) for every other name (a zero reads as
\* unset), whichever class was asked for.
C7_Coercion ==
    pc = "decoded" =>
        \A p \in DOMAIN g.adj : \A k \in DOMAIN g.adj[p] : \A n \in DOMAIN g.adj[p][k] :
           LET stored == Get(c2, p[1].id, p[1].n, p[2].id, p[2].n, SlotOf(g, p, k), n)
               value == g.adj[p][k][n]
               conv == IF n = "id" THEN PyInt(value) ELSE PyFloat(value)
           IN IF Truthy(conv) THEN stored = conv ELSE ~Truthy(stored)

\* A Connectivity decoded from a graph with an edge whose 'id' is the float
\* 5.7 and whose 'weight' is the int 2.
C7_Witness ==
    /\ pc = "decoded"
    /\ conn_type = "Connectivity"
    /\ \E p \in DOMAIN g.adj : \E k \in DOMAIN g.adj[p] :
          /\ DOMAIN g.adj[p][k] = {"id", "weight"}
          /\ g.adj[p][k]["id"] = FloatV(57)
          /\ Get(c2, p[1].id, p[1].n, p[2].id, p[2].n, SlotOf(g, p, k), "id") = IntV(5)
          /\ Get(c2, p[1].id, p[1].n, p[2].id, p[2].n, SlotOf(g, p, k), "weight") = FloatV(20)

\* The number of nodes of population id tagged type.
Tagged(gg, id, type) ==
    Cardinality({l \in DOMAIN gg.node : l.id = id /\ gg.node[l] = type})

\* C8: when a Connectivity is asked for and the graph passes the argument,
\* label, two-prefix and consecutive-numbering checks, a node without
\* neuron_type and a node with another neuron_type than 'gpot' and 'spike'
\* are both rejected with the invalid-neuron-type error; an object that is
\* returned has, per population, the counts of the nodes carrying each tag.
C8_NeuronTypes ==
    (Applied /\ conn_type = "Connectivity" /\ IsBipartite(g) /\ StructurallyValid(g)) =>
        /\ ~TypesValid(g) => (pc = "decode raised" /\ err = E_neuron_type)
        /\ pc = "decoded" =>
              /\ c2.N_A_gpot = Tagged(g, c2.A_id, "gpot")
              /\ c2.N_A_spike = Tagged(g, c2.A_id, "spike")
              /\ c2.N_B_gpot = Tagged(g, c2.B_id, "gpot")
              /\ c2.N_B_spike = Tagged(g, c2.B_id, "spike")

\* C9: graph_to_conn returns an object only for a graph whose labels are
\* well formed, that has exactly two prefixes and whose populations are
\* numbered without gaps; any other graph raises and nothing is returned.
C9_AcceptedIsValid ==
    /\ pc = "decoded" => StructurallyValid(g)
    /\ (Applied /\ ~StructurallyValid(g)) => (pc = "decode raised" /\ c2 = NoConn)

\* A graph of three nodes that is accepted.
C9_Witness ==
    /\ pc = "decoded"
    /\ DOMAIN g.node = {Label("A", 0), Label("A", 1), Label("B", 0)}
    /\ c2.N_A = 2

\* The slots of an ordered pair whose 'conn' flag is set in the object.
ConnSlots(cc, u, v) ==
    {s \in 0..(cc.N_mult - 1) : Truthy(Get(cc, u.id, u.n, v.id, v.n, s, "conn"))}

\* The 'conn' flags of the object decoded from gg are those of slots 0..k-1
\* of every ordered pair with k parallel edges, and k is at most N_mult.
SlotsArePrefix(gg, cc) ==
    /\ \A u \in DOMAIN gg.node, v \in DOMAIN gg.node :
          /\ NumEdges(gg, u, v) <= cc.N_mult
          /\ ConnSlots(cc, u, v) = 0..(NumEdges(gg, u, v) - 1)
    /\ \A x \in DOMAIN cc.data :
          x[6] = "conn" => /\ Label(x[1], x[2]) \in DOMAIN gg.node
                           /\ Label(x[3], x[4]) \in DOMAIN gg.node
                           /\ x[5] < NumEdges(gg, Label(x[1], x[2]), Label(x[3], x[4]))

\* C10 as claimed: the slot invariant holds of every object returned.
C10_SlotsArePrefix == pc = "decoded" => SlotsArePrefix(g, c2)

\* Whether some edge carries an attribute named 'conn'.
HasConnAttribute(gg) ==
    \E p \in DOMAIN gg.adj : \E k \in DOMAIN gg.adj[p] : "conn" \in DOMAIN gg.adj[p][k]

\* C10 as amended: it holds when no edge carries an attribute named 'conn'.
C10_SlotsArePrefixWithoutConnAttribute ==
    (pc = "decoded" /\ ~HasConnAttribute(g)) => SlotsArePrefix(g, c2)

\* One pair with both edge keys, the second past a gap, another with one edge.
C10_Witness ==
    /\ pc = "decoded"
    /\ ~HasConnAttribute(g)
    /\ \E p \in DOMAIN g.adj, q \in DOMAIN g.adj :
          /\ DOMAIN g.adj[p] = DecKeys
          /\ Cardinality(DOMAIN g.adj[q]) = 1
          /\ ConnSlots(c2, p[1], p[2]) = {0, 1}
          /\ ConnSlots(c2, q[1], q[2]) = {0}

====
